---- MODULE Spec2Model ----
(***************************************************************************)
(* AnsiTransactionManager of diesel (connection/transaction_manager.rs):   *)
(* the per-connection transaction depth counter and the SQL statements     *)
(* that begin_transaction, begin_transaction_sql, rollback_transaction and *)
(* commit_transaction issue through Connection::batch_execute.             *)
(*                                                                         *)
(* The statement channel is the environment: every batch_execute returns   *)
(* Ok or an error chosen nondeterministically.  `history` is a history     *)
(* variable recording every call with the statements it issued.            *)
(*                                                                         *)
(* `main`, `threads`, `barrier` and `database` belong to the test          *)
(* transaction_depth_is_tracked_properly_on_commit_failure: two threads,   *)
(* each with a connection and manager of its own, against one database.    *)
(* They move under SpecRace only.                                          *)
(***************************************************************************)
EXTENDS Integers, Sequences, FiniteSets, TLC

VARIABLES transaction_depth, history, faults, observed, main, threads, barrier, database

vars == <<transaction_depth, history, faults, observed, main, threads, barrier, database>>

\* the manager that is called directly
single == <<transaction_depth, history, faults, observed>>

(* ------------------------------ bounds --------------------------------- *)

\* number of manager calls in a behaviour in which statements fail
MaxCalls == 3

\* number of manager calls in a behaviour in which every statement succeeds
MaxReliableCalls == 6

\* number of calls with a failing statement in one behaviour
MaxFaults == 1

(* ------------------------- results and errors -------------------------- *)

\* DatabaseErrorKind values the channel may report; the manager matches on
\* the first two only, UnableToSendCommand stands for every other kind.
DatabaseErrorKinds == {"SerializationFailure", "ReadOnlyTransaction", "UnableToSendCommand"}

\* the DatabaseErrorInformation payload carried by a DatabaseError
ErrorInfos == {"m1", "m2"}

DatabaseError(kind, info) == <<"DatabaseError", kind, info>>

AlreadyInTransaction == <<"AlreadyInTransaction">>

Ok == <<"Ok">>

Err(e) == <<"Err", e>>

is_ok(query) == query[1] = "Ok"

\* what one batch_execute may return
ChannelResults ==
    {Ok} \cup {Err(DatabaseError(k, i)) : k \in DatabaseErrorKinds, i \in ErrorInfos}

\* SQL a connection passes to begin_transaction_sql
CustomSqls == {"BEGIN TRANSACTION ISOLATION LEVEL SERIALIZABLE", "BEGIN TRANSACTION READ ONLY"}

(* ----------------------------- pure parts ------------------------------ *)

\* format!("diesel_savepoint_{}", n) for an i32 n
SavepointName(n) == "diesel_savepoint_" \o ToString(n)

\* the same name built from the depth itself instead of depth - 1
RollbackStatementSameDepth(depth) ==
    IF depth = 1 THEN "ROLLBACK"
    ELSE "ROLLBACK TO SAVEPOINT " \o SavepointName(depth)

RollbackStatement(depth) ==
    IF depth = 1 THEN "ROLLBACK"
    ELSE "ROLLBACK TO SAVEPOINT " \o SavepointName(depth - 1)

\* a begin that never switches to savepoints
BeginStatementAlwaysBegin(depth) == "BEGIN"

\* a begin that names the savepoint after depth - 1
BeginStatementDepthMinusOne(depth) ==
    IF depth = 0 THEN "BEGIN"
    ELSE "SAVEPOINT " \o SavepointName(depth - 1)

BeginStatement(depth) ==
    IF depth = 0 THEN "BEGIN"
    ELSE "SAVEPOINT " \o SavepointName(depth)

\* a release that names the savepoint after the depth itself
ReleaseStatementSameDepth(depth) ==
    "RELEASE SAVEPOINT " \o SavepointName(depth)

ReleaseStatement(depth) ==
    "RELEASE SAVEPOINT " \o SavepointName(depth - 1)

\* a depth change that ignores the outcome of the statement
change_transaction_depth_unconditional(depth, by, query) == depth + by

\* a depth change that ignores the direction
change_transaction_depth_up(depth, by, query) ==
    IF is_ok(query) THEN depth + 1 ELSE depth

\* the new depth; the caller returns `query` itself
change_transaction_depth(depth, by, query) ==
    IF is_ok(query) THEN depth + by ELSE depth

\* a match arm that forgets SerializationFailure
rollback_expected_read_only(query) ==
    /\ ~is_ok(query)
    /\ query[2][1] = "DatabaseError"
    /\ query[2][2] = "ReadOnlyTransaction"

\* a match arm that takes every COMMIT error
rollback_expected_any_error(query) == ~is_ok(query)

\* the first match arm of commit_transaction
rollback_expected(query) ==
    /\ ~is_ok(query)
    /\ query[2][1] = "DatabaseError"
    /\ query[2][2] \in {"SerializationFailure", "ReadOnlyTransaction"}

\* a recovery that hands back the ROLLBACK's result
commit_recovery_result_of_rollback(e, rollback) == rollback

\* a recovery that always hands back the COMMIT error
commit_recovery_result_of_commit(e, rollback) == e

\* `change_transaction_depth(-1, ROLLBACK)?; e`
commit_recovery_result(e, rollback) ==
    IF is_ok(rollback) THEN e ELSE rollback

\* a custom begin that is also let through inside a top-level transaction
may_begin_with_sql_lenient(depth) == depth <= 1

\* the guard of begin_transaction_sql
may_begin_with_sql(depth) == depth = 0

\* a cast that clamps a negative counter to 0
as_u32_saturating(n) ==
    IF n < 0 THEN [hi |-> 0, lo |-> 0]
    ELSE [hi |-> (n \div 65536) % 65536, lo |-> n % 65536]

\* `self.transaction_depth.get() as u32`, as its two 16-bit halves
\* (hi * 65536 + lo)
as_u32(n) == [hi |-> (n \div 65536) % 65536, lo |-> n % 65536]

\* `observed` when the depth was not queried since the last call
NotQueried == [hi |-> -1, lo |-> -1]

Statement(sql, result) == [sql |-> sql, result |-> result]

\* 1 when a statement of the call failed, else 0
Failures(stmts) == IF \E i \in DOMAIN stmts : ~is_ok(stmts[i].result) THEN 1 ELSE 0

\* one call as recorded in the history
Call(op, arg, pre, stmts, ret, post) ==
    [op |-> op, arg |-> arg, pre |-> pre, stmts |-> stmts, ret |-> ret, post |-> post]

\* the state change shared by all operations
Finish(op, arg, stmts, ret, post) ==
    /\ \/ Len(history) < MaxCalls /\ faults + Failures(stmts) <= MaxFaults
       \/ Len(history) < MaxReliableCalls /\ faults + Failures(stmts) = 0
    /\ transaction_depth' = post
    /\ history' = Append(history, Call(op, arg, transaction_depth, stmts, ret, post))
    /\ faults' = faults + Failures(stmts)
    /\ observed' = NotQueried
    /\ UNCHANGED <<main, threads, barrier, database>>

(* ------------------------------- state --------------------------------- *)

\* the two spawned threads, `(1..3).map(|i| ...)`
Threads == {1, 2}

\* `let other_i = if i == 1 { 2 } else { 1 }`
other_i(i) == IF i = 1 THEN 2 ELSE 1

NoResult == <<"None">>

\* a thread before it is spawned; its manager will be new, depth 0
ThreadStart == [pc |-> "unspawned", depth |-> 0, seen |-> <<>>, result |-> NoResult]

\* the test function before its first statement
MainStart == [pc |-> "drop", results |-> <<>>]

\* the database before the test: whether the table exists is not known; no
\* thread has read or inserted, no transaction has committed
DatabaseStart ==
    [rows |-> <<>>,
     reads |-> [t \in Threads |-> {}],
     writes |-> [t \in Threads |-> {}],
     committed |-> {}]

\* AnsiTransactionManager::new(): Cell<i32>::default() is 0
Init ==
    /\ transaction_depth = 0
    /\ history = <<>>
    /\ faults = 0
    /\ observed = NotQueried
    /\ main = MainStart
    /\ threads = [t \in Threads |-> ThreadStart]
    /\ barrier = 0
    /\ database = DatabaseStart

(* ----------------------------- operations ------------------------------ *)

begin_transaction_sql ==
    \E sql \in CustomSqls, query \in ChannelResults :
        IF may_begin_with_sql(transaction_depth)
        THEN Finish("begin_transaction_sql", sql, <<Statement(sql, query)>>, query,
                    change_transaction_depth(transaction_depth, 1, query))
        ELSE Finish("begin_transaction_sql", sql, <<>>, Err(AlreadyInTransaction),
                    transaction_depth)

begin_transaction ==
    \E query \in ChannelResults :
        Finish("begin_transaction", "",
               <<Statement(BeginStatement(transaction_depth), query)>>, query,
               change_transaction_depth(transaction_depth, 1, query))

rollback_transaction ==
    \E query \in ChannelResults :
        Finish("rollback_transaction", "",
               <<Statement(RollbackStatement(transaction_depth), query)>>, query,
               change_transaction_depth(transaction_depth, -1, query))

commit_transaction ==
    IF transaction_depth <= 1
    THEN \E query \in ChannelResults :
            IF rollback_expected(query)
            THEN \E rollback \in ChannelResults :
                    Finish("commit_transaction", "",
                           <<Statement("COMMIT", query), Statement("ROLLBACK", rollback)>>,
                           commit_recovery_result(query, rollback),
                           change_transaction_depth(transaction_depth, -1, rollback))
            ELSE Finish("commit_transaction", "",
                        <<Statement("COMMIT", query)>>, query,
                        change_transaction_depth(transaction_depth, -1, query))
    ELSE \E query \in ChannelResults :
            Finish("commit_transaction", "",
                   <<Statement(ReleaseStatement(transaction_depth), query)>>, query,
                   change_transaction_depth(transaction_depth, -1, query))

\* the query changes nothing in the manager; `observed` keeps what it
\* returned until the next call
get_transaction_depth ==
    /\ observed = NotQueried
    /\ observed' = as_u32(transaction_depth)
    /\ UNCHANGED <<transaction_depth, history, faults, main, threads, barrier, database>>

Next ==
    \/ begin_transaction_sql
    \/ begin_transaction
    \/ rollback_transaction
    \/ commit_transaction
    \/ get_transaction_depth

Spec == Init /\ [][Next]_vars

(* -------------------- two connections, one database -------------------- *)

\* commit_transaction on a connection of its own: the depth and the result
\* after COMMIT returned `query` and, if issued, ROLLBACK returned `rollback`
commit_on(depth, query, rollback) ==
    IF depth <= 1
    THEN IF rollback_expected(query)
         THEN [depth |-> change_transaction_depth(depth, -1, rollback),
               ret |-> commit_recovery_result(query, rollback)]
         ELSE [depth |-> change_transaction_depth(depth, -1, query), ret |-> query]
    ELSE [depth |-> change_transaction_depth(depth, -1, query), ret |-> query]

\* begin_transaction_sql on a connection of its own
begin_sql_on(depth, query) ==
    IF may_begin_with_sql(depth)
    THEN [depth |-> change_transaction_depth(depth, 1, query), ret |-> query]
    ELSE [depth |-> depth, ret |-> Err(AlreadyInTransaction)]

\* the transaction of t read what u inserted and u read what t inserted
Conflict(t, u) ==
    /\ database.reads[t] \cap database.writes[u] # {}
    /\ database.reads[u] \cap database.writes[t] # {}

\* what the database answers to COMMIT of t under serializable isolation:
\* of two conflicting transactions only the first to commit succeeds
CommitAnswers(t) ==
    IF \E u \in database.committed : u # t /\ Conflict(t, u)
    THEN {Err(DatabaseError("SerializationFailure", i)) : i \in ErrorInfos}
    ELSE {Ok}

Goto(t, pc) == threads' = [threads EXCEPT ![t].pc = pc]

\* `assert_eq!(n, get_transaction_depth(..))`: the value is kept in `seen`
LookAtDepth(t, pc) ==
    threads' = [threads EXCEPT ![t].pc = pc,
                               ![t].seen = Append(@, as_u32(threads[t].depth))]

connect(t) ==
    /\ threads[t].pc = "connect"
    /\ LookAtDepth(t, "run")
    /\ UNCHANGED <<single, main, barrier, database>>

\* build_transaction().serializable().run(..) starts the transaction
run_begin(t) ==
    /\ threads[t].pc = "run"
    /\ LET r == begin_sql_on(threads[t].depth, Ok) IN
       threads' = [threads EXCEPT ![t].depth = r.depth,
                                  ![t].result = IF is_ok(r.ret) THEN @ ELSE r.ret,
                                  ![t].pc = IF is_ok(r.ret) THEN "inside" ELSE "after"]
    /\ UNCHANGED <<single, main, barrier, database>>

inside(t) ==
    /\ threads[t].pc = "inside"
    /\ LookAtDepth(t, "read")
    /\ UNCHANGED <<single, main, barrier, database>>

\* `filter(class.eq(i)).count()`
read(t) ==
    /\ threads[t].pc = "read"
    /\ Goto(t, "barrier")
    /\ database' = [database EXCEPT !.reads[t] = @ \cup {t}]
    /\ UNCHANGED <<single, main, barrier>>

\* `barrier.wait()`: arrive, then leave once both threads arrived
barrier_arrive(t) ==
    /\ threads[t].pc = "barrier"
    /\ Goto(t, "waiting")
    /\ barrier' = barrier + 1
    /\ UNCHANGED <<single, main, database>>

barrier_leave(t) ==
    /\ threads[t].pc = "waiting"
    /\ barrier = Cardinality(Threads)
    /\ Goto(t, "insert")
    /\ UNCHANGED <<single, main, barrier, database>>

\* `insert_into(..).values(class.eq(other_i))`
insert(t) ==
    /\ threads[t].pc = "insert"
    /\ Goto(t, "commit")
    /\ database' = [database EXCEPT !.writes[t] = @ \cup {other_i(t)},
                                    !.rows = Append(@, other_i(t))]
    /\ UNCHANGED <<single, main, barrier>>

\* the closure returned Ok: run(..) commits; the ROLLBACK after a
\* serialization failure succeeds
run_commit(t) ==
    /\ threads[t].pc = "commit"
    /\ \E query \in CommitAnswers(t) :
          LET r == commit_on(threads[t].depth, query, Ok) IN
          /\ threads' = [threads EXCEPT ![t].depth = r.depth,
                                        ![t].result = r.ret,
                                        ![t].pc = "after"]
          /\ database' = [database EXCEPT
                             !.committed = IF is_ok(query) THEN @ \cup {t} ELSE @]
    /\ UNCHANGED <<single, main, barrier>>

after(t) ==
    /\ threads[t].pc = "after"
    /\ LookAtDepth(t, "done")
    /\ UNCHANGED <<single, main, barrier, database>>

\* DROP TABLE IF EXISTS, CREATE TABLE, then the rows of class 1 and 2
main_setup ==
    /\ main.pc \in {"drop", "create", "fill"}
    /\ main' = [main EXCEPT !.pc = CASE main.pc = "drop" -> "create"
                                     [] main.pc = "create" -> "fill"
                                     [] main.pc = "fill" -> "spawn"]
    /\ database' = [database EXCEPT !.rows = IF main.pc = "fill" THEN <<1, 2>> ELSE <<>>]
    /\ UNCHANGED <<single, threads, barrier>>

\* `thread::spawn` for i = 1, then for i = 2
main_spawn ==
    /\ main.pc = "spawn"
    /\ \E t \in Threads :
          /\ threads[t].pc = "unspawned"
          /\ \A u \in Threads : u < t => threads[u].pc # "unspawned"
          /\ threads' = [threads EXCEPT ![t].pc = "connect"]
          /\ main' = [main EXCEPT !.pc = IF t = Cardinality(Threads) THEN "join" ELSE "spawn"]
    /\ UNCHANGED <<single, barrier, database>>

\* `t.join().unwrap()` in spawn order
main_join ==
    /\ main.pc = "join"
    /\ LET t == Len(main.results) + 1 IN
       /\ threads[t].pc = "done"
       /\ main' = [main EXCEPT !.results = Append(@, threads[t].result),
                               !.pc = IF t = Cardinality(Threads) THEN "sort" ELSE "join"]
    /\ UNCHANGED <<single, threads, barrier, database>>

\* `results.sort_by_key(|r| r.is_err())`: stable, the Ok results first
main_sort ==
    /\ main.pc = "sort"
    /\ main' = [main EXCEPT !.results = SelectSeq(@, LAMBDA r : is_ok(r))
                                         \o SelectSeq(@, LAMBDA r : ~is_ok(r)),
                            !.pc = "assert"]
    /\ UNCHANGED <<single, threads, barrier, database>>

\* the two final assertions
main_assert ==
    /\ main.pc = "assert"
    /\ main' = [main EXCEPT !.pc =
                  IF /\ is_ok(main.results[1])
                     /\ ~is_ok(main.results[2])
                     /\ main.results[2][2][1] = "DatabaseError"
                     /\ main.results[2][2][2] = "SerializationFailure"
                  THEN "passed" ELSE "panicked"]
    /\ UNCHANGED <<single, threads, barrier, database>>

NextRace ==
    \/ main_setup
    \/ main_spawn
    \/ main_join
    \/ main_sort
    \/ main_assert
    \/ \E t \in Threads :
        \/ connect(t)
        \/ run_begin(t)
        \/ inside(t)
        \/ read(t)
        \/ barrier_arrive(t)
        \/ barrier_leave(t)
        \/ insert(t)
        \/ run_commit(t)
        \/ after(t)

SpecRace == Init /\ [][NextRace]_vars

(* ------------------------- reading the history ------------------------- *)

Calls == {history[i] : i \in DOMAIN history}

CommitAtDepthOne == {c \in Calls : c.op = "commit_transaction" /\ c.pre = 1}

SerializationOrReadOnly ==
    {Err(DatabaseError(k, i)) : k \in {"SerializationFailure", "ReadOnlyTransaction"},
                                i \in ErrorInfos}

\* commits at depth 1 whose COMMIT failed with one of the two classified kinds
ClassifiedCommitFailures ==
    {c \in CommitAtDepthOne :
        c.stmts[1].sql = "COMMIT" /\ c.stmts[1].result \in SerializationOrReadOnly}

\* commits at depth 1 whose COMMIT failed with an error of another kind
OtherCommitFailures ==
    {c \in CommitAtDepthOne :
        /\ c.stmts[1].sql = "COMMIT"
        /\ ~is_ok(c.stmts[1].result)
        /\ c.stmts[1].result \notin SerializationOrReadOnly}

AllFailed(c) == \A i \in DOMAIN c.stmts : ~is_ok(c.stmts[i].result)

(* ------------------------------- claims -------------------------------- *)

\* C1: a commit at depth 1 whose COMMIT fails with SerializationFailure or
\* ReadOnlyTransaction issues ROLLBACK next; when that ROLLBACK succeeds the
\* depth afterwards is 0 and the call returns the COMMIT's own error.
C1_CommitErrorSurvivesRollback ==
    \A c \in ClassifiedCommitFailures :
        /\ Len(c.stmts) = 2
        /\ c.stmts[2].sql = "ROLLBACK"
        /\ is_ok(c.stmts[2].result) =>
              /\ c.post = 0
              /\ ~is_ok(c.ret)
              /\ c.ret = c.stmts[1].result

C1_Witness ==
    \E c \in ClassifiedCommitFailures : Len(c.stmts) = 2 /\ is_ok(c.stmts[2].result)

\* C2 as claimed: when the COMMIT fails with a classified kind and the
\* compensating ROLLBACK fails too, the depth afterwards is 0 and the call
\* returns the ROLLBACK's error.
C2_DepthDroppedAfterFailedRollback ==
    \A c \in ClassifiedCommitFailures :
        (Len(c.stmts) = 2 /\ ~is_ok(c.stmts[2].result)) =>
            /\ c.post = 0
            /\ c.ret = c.stmts[2].result

\* C2 as amended: when the COMMIT fails with a classified kind and the
\* compensating ROLLBACK fails too, the depth stays 1 and the call returns
\* the ROLLBACK's error, not the COMMIT's.
C2_DepthKeptAfterFailedRollback ==
    \A c \in ClassifiedCommitFailures :
        (Len(c.stmts) = 2 /\ ~is_ok(c.stmts[2].result)) =>
            /\ c.post = 1
            /\ c.ret = c.stmts[2].result

C2_Witness ==
    \E c \in ClassifiedCommitFailures :
        /\ Len(c.stmts) = 2
        /\ ~is_ok(c.stmts[2].result)
        /\ c.stmts[2].result # c.stmts[1].result

\* C3 as claimed: a commit at depth 1 whose COMMIT fails with an error of
\* another kind brings the depth to 0, returns that error and issues no
\* ROLLBACK.
C3_DepthDroppedAfterOtherFailure ==
    \A c \in OtherCommitFailures :
        /\ c.post = 0
        /\ c.ret = c.stmts[1].result
        /\ Len(c.stmts) = 1

\* C3 as amended: a commit at depth 1 whose COMMIT fails with an error of
\* another kind leaves the depth at 1, returns that error and issues no
\* ROLLBACK.
C3_DepthKeptAfterOtherFailure ==
    \A c \in OtherCommitFailures :
        /\ c.post = 1
        /\ c.ret = c.stmts[1].result
        /\ Len(c.stmts) = 1

C3_Witness == OtherCommitFailures # {}

\* C4: a call all of whose statements failed (a call that issued none
\* included) leaves the depth where it was.
C4_FailedStatementsKeepDepth ==
    \A c \in Calls : AllFailed(c) => c.post = c.pre

C4_Witness ==
    \E c \in CommitAtDepthOne : Len(c.stmts) = 2 /\ AllFailed(c)

SuccessfulBegin(c) == c.op = "begin_transaction" /\ is_ok(c.ret)

SuccessfulCommit(c) == c.op = "commit_transaction" /\ is_ok(c.ret)

SuccessfulRollback(c) == c.op = "rollback_transaction" /\ is_ok(c.ret)

\* the numbers a savepoint name can carry within the bounds
SavepointNumbers == (0 - MaxCalls - MaxReliableCalls)..(MaxCalls + MaxReliableCalls)

IsSavepointStatement(sql) ==
    \E n \in SavepointNumbers : sql = "SAVEPOINT diesel_savepoint_" \o ToString(n)

\* every statement issued so far, in order
RECURSIVE IssuedBy(_)
IssuedBy(calls) ==
    IF calls = <<>> THEN <<>>
    ELSE [i \in DOMAIN Head(calls).stmts |-> Head(calls).stmts[i].sql] \o IssuedBy(Tail(calls))

\* C5: after N successful begin calls on a new manager and nothing else the
\* depth query returns N; the first call issued BEGIN, every later one a
\* SAVEPOINT statement, and each raised the depth by 1.
C5_BeginsCountDepth ==
    (\A c \in Calls : SuccessfulBegin(c)) =>
        /\ as_u32(transaction_depth) = [hi |-> 0, lo |-> Len(history)]
        /\ observed \in {NotQueried, [hi |-> 0, lo |-> Len(history)]}
        /\ \A i \in DOMAIN history :
              /\ history[i].post = history[i].pre + 1
              /\ Len(history[i].stmts) = 1
              /\ IF i = 1 THEN history[i].stmts[1].sql = "BEGIN"
                          ELSE IsSavepointStatement(history[i].stmts[1].sql)

C5_Witness ==
    /\ Len(history) = 3
    /\ \A c \in Calls : SuccessfulBegin(c)
    /\ observed = [hi |-> 0, lo |-> 3]

\* C6 as claimed: a begin at depth D >= 1 issues SAVEPOINT with the name
\* diesel_savepoint_ followed by D - 1.
C6_SavepointNamedDepthMinusOne ==
    \A c \in Calls :
        (c.op = "begin_transaction" /\ c.pre >= 1) =>
            /\ Len(c.stmts) = 1
            /\ c.stmts[1].sql = "SAVEPOINT diesel_savepoint_" \o ToString(c.pre - 1)

\* C6 as amended: a begin at depth D >= 1 issues SAVEPOINT with the name
\* diesel_savepoint_ followed by D, the depth at the time of the call.
C6_SavepointNamedDepth ==
    \A c \in Calls :
        (c.op = "begin_transaction" /\ c.pre >= 1) =>
            /\ Len(c.stmts) = 1
            /\ c.stmts[1].sql = "SAVEPOINT diesel_savepoint_" \o ToString(c.pre)

C6_Witness ==
    \E c \in Calls : c.op = "begin_transaction" /\ c.pre = 2 /\ is_ok(c.ret)

\* C7: a successful begin at depth D >= 0 followed at once by a successful
\* commit or a successful rollback ends at depth D.
C7_CommitAndRollbackUndoBegin ==
    \A i \in DOMAIN history :
        (/\ i + 1 \in DOMAIN history
         /\ history[i].pre >= 0
         /\ SuccessfulBegin(history[i])
         /\ SuccessfulCommit(history[i + 1]) \/ SuccessfulRollback(history[i + 1]))
        => history[i + 1].post = history[i].pre

C7_Witness ==
    /\ \E i \in DOMAIN history :
          /\ i + 1 \in DOMAIN history
          /\ history[i].pre = 1
          /\ SuccessfulBegin(history[i])
          /\ SuccessfulCommit(history[i + 1])
    /\ \E i \in DOMAIN history :
          /\ i + 1 \in DOMAIN history
          /\ history[i].pre = 0
          /\ SuccessfulBegin(history[i])
          /\ SuccessfulRollback(history[i + 1])

\* C8: begin_transaction_sql at depth 0 executes the SQL it was given and on
\* success sets the depth to 1; at any other depth it returns
\* AlreadyInTransaction, issues nothing and leaves the depth alone.
C8_CustomBeginOnlyAtDepthZero ==
    \A c \in Calls :
        c.op = "begin_transaction_sql" =>
            IF c.pre = 0
            THEN /\ Len(c.stmts) = 1
                 /\ c.stmts[1].sql = c.arg
                 /\ c.ret = c.stmts[1].result
                 /\ is_ok(c.ret) => c.post = 1
            ELSE /\ c.ret = Err(AlreadyInTransaction)
                 /\ c.stmts = <<>>
                 /\ c.post = c.pre

C8_Witness ==
    /\ \E c \in Calls : c.op = "begin_transaction_sql" /\ c.pre = 0 /\ is_ok(c.ret)
    /\ \E c \in Calls : c.op = "begin_transaction_sql" /\ c.pre = 1

\* BEGIN, SAVEPOINT 1 .. n-1, RELEASE SAVEPOINT n-1 .. 1, COMMIT
ExpectedNesting(n) ==
    <<"BEGIN">>
    \o [i \in 1..(n - 1) |-> "SAVEPOINT diesel_savepoint_" \o ToString(i)]
    \o [i \in 1..(n - 1) |-> "RELEASE SAVEPOINT diesel_savepoint_" \o ToString(n - i)]
    \o <<"COMMIT">>

\* the history is n successful begins followed by n successful commits
BeginsThenCommits(n) ==
    /\ Len(history) = 2 * n
    /\ \A i \in 1..n : SuccessfulBegin(history[i])
    /\ \A i \in (n + 1)..(2 * n) : SuccessfulCommit(history[i])

\* C9: N successful begins followed by N successful commits on a new manager
\* issue exactly BEGIN, SAVEPOINT 1 .. N-1, RELEASE SAVEPOINT N-1 .. 1, COMMIT
\* in that order and end at depth 0; for N = 2 that is BEGIN, SAVEPOINT 1,
\* RELEASE SAVEPOINT 1, COMMIT.
C9_NestedStatementsInOrder ==
    /\ \A n \in 1..MaxReliableCalls :
          BeginsThenCommits(n) =>
              /\ IssuedBy(history) = ExpectedNesting(n)
              /\ transaction_depth = 0
    /\ BeginsThenCommits(2) =>
          IssuedBy(history) = <<"BEGIN", "SAVEPOINT diesel_savepoint_1",
                                "RELEASE SAVEPOINT diesel_savepoint_1", "COMMIT">>

C9_Witness == BeginsThenCommits(3)

\* C10: a rollback at depth D >= 1 issues ROLLBACK when D = 1 and ROLLBACK TO
\* SAVEPOINT diesel_savepoint_(D-1) when D > 1; on success the depth becomes
\* D - 1, on failure it stays D and the statement's error is returned.
C10_RollbackStatementAndDepth ==
    \A c \in Calls :
        (c.op = "rollback_transaction" /\ c.pre >= 1) =>
            /\ Len(c.stmts) = 1
            /\ c.stmts[1].sql =
                  IF c.pre = 1 THEN "ROLLBACK"
                  ELSE "ROLLBACK TO SAVEPOINT diesel_savepoint_" \o ToString(c.pre - 1)
            /\ is_ok(c.stmts[1].result) => c.post = c.pre - 1
            /\ ~is_ok(c.stmts[1].result) =>
                  /\ c.post = c.pre
                  /\ c.ret = c.stmts[1].result

C10_Witness ==
    \E c \in Calls :
        c.op = "rollback_transaction" /\ c.pre = 2 /\ ~is_ok(c.stmts[1].result)

\* C11: a commit at depth D > 1 issues RELEASE SAVEPOINT diesel_savepoint_(D-1)
\* and nothing else, whatever the error; on success the depth becomes D - 1,
\* on failure it stays D and the statement's error is returned.
C11_NestedCommitReleases ==
    \A c \in Calls :
        (c.op = "commit_transaction" /\ c.pre > 1) =>
            /\ Len(c.stmts) = 1
            /\ c.stmts[1].sql = "RELEASE SAVEPOINT diesel_savepoint_" \o ToString(c.pre - 1)
            /\ c.ret = c.stmts[1].result
            /\ is_ok(c.stmts[1].result) => c.post = c.pre - 1
            /\ ~is_ok(c.stmts[1].result) => c.post = c.pre

C11_Witness ==
    \E c \in Calls :
        /\ c.op = "commit_transaction"
        /\ c.pre = 2
        /\ c.stmts[1].result \in SerializationOrReadOnly

\* C13 as claimed: the stored counter is never below 0.
C13_DepthNeverNegative == transaction_depth >= 0

\* C16: a call returns Ok exactly when it issued a statement and all its
\* statements succeeded; otherwise it returns the error of its last failed
\* statement unchanged (with one failed statement that is this statement's
\* error, with COMMIT and ROLLBACK both failed it is the ROLLBACK's), or
\* AlreadyInTransaction when it issued nothing.
C16_ErrorsPropagateUnchanged ==
    \A c \in Calls :
        LET failed == {i \in DOMAIN c.stmts : ~is_ok(c.stmts[i].result)} IN
        /\ is_ok(c.ret) <=> (c.stmts # <<>> /\ failed = {})
        /\ failed # {} =>
              c.ret = c.stmts[CHOOSE i \in failed : \A j \in failed : j <= i].result
        /\ (failed = {} /\ ~is_ok(c.ret)) =>
              c.stmts = <<>> /\ c.ret = Err(AlreadyInTransaction)

C16_Witness ==
    \E c \in Calls :
        /\ c.op = "commit_transaction"
        /\ Len(c.stmts) = 2
        /\ ~is_ok(c.stmts[1].result)
        /\ is_ok(c.stmts[2].result)

\* C17: a call issues exactly one statement, except that begin_transaction_sql
\* away from depth 0 issues none and a commit at depth <= 1 whose COMMIT fails
\* with SerializationFailure or ReadOnlyTransaction issues COMMIT then
\* ROLLBACK; ROLLBACK never follows a successful COMMIT, a COMMIT failure of
\* another kind or a RELEASE SAVEPOINT.
C17_StatementsPerCall ==
    \A c \in Calls :
        /\ Len(c.stmts) =
              (IF c.op = "begin_transaction_sql" /\ c.pre # 0 THEN 0
               ELSE IF /\ c.op = "commit_transaction"
                       /\ c.pre <= 1
                       /\ c.stmts # <<>>
                       /\ c.stmts[1].sql = "COMMIT"
                       /\ c.stmts[1].result \in SerializationOrReadOnly
                    THEN 2
                    ELSE 1)
        /\ Len(c.stmts) = 2 =>
              /\ c.stmts[1].sql = "COMMIT"
              /\ c.stmts[2].sql = "ROLLBACK"

C17_Witness ==
    /\ \E c \in Calls :
          /\ c.op = "commit_transaction"
          /\ c.pre = 1
          /\ Len(c.stmts) = 1
          /\ ~is_ok(c.stmts[1].result)
    /\ \E c \in Calls : c.op = "begin_transaction_sql" /\ c.stmts = <<>>

\* C18 as claimed: at depth <= 1 (depth 0 included) commit issues COMMIT and
\* rollback issues ROLLBACK; at depth > 1 commit issues RELEASE SAVEPOINT and
\* rollback issues ROLLBACK TO SAVEPOINT.
C18_SameThreshold ==
    \A c \in Calls :
        /\ c.op = "commit_transaction" =>
              c.stmts[1].sql =
                  IF c.pre <= 1 THEN "COMMIT"
                  ELSE "RELEASE SAVEPOINT diesel_savepoint_" \o ToString(c.pre - 1)
        /\ c.op = "rollback_transaction" =>
              c.stmts[1].sql =
                  IF c.pre <= 1 THEN "ROLLBACK"
                  ELSE "ROLLBACK TO SAVEPOINT diesel_savepoint_" \o ToString(c.pre - 1)

\* 2^32 - 1 = 65535 * 65536 + 65535
U32Max == [hi |-> 65535, lo |-> 65535]

UnmatchedEnd(c) ==
    /\ c.op \in {"commit_transaction", "rollback_transaction"}
    /\ c.pre = 0
    /\ c.stmts # <<>>
    /\ is_ok(c.stmts[1].result)

\* C19: a commit or rollback at depth 0 issues its statement; when the
\* statement succeeds the counter becomes -1 and the depth query returns
\* 4294967295, and a successful begin right after brings the query back to 0.
C19_DepthWrapsBelowZero ==
    /\ \A c \in Calls :
          (c.op \in {"commit_transaction", "rollback_transaction"} /\ c.pre = 0) =>
              c.stmts # <<>>
    /\ \A i \in DOMAIN history :
          UnmatchedEnd(history[i]) =>
              /\ history[i].post = -1
              /\ i = Len(history) =>
                    /\ as_u32(transaction_depth) = U32Max
                    /\ observed \in {NotQueried, U32Max}
              /\ (i + 1 = Len(history) /\ SuccessfulBegin(history[i + 1])) =>
                    /\ as_u32(transaction_depth) = [hi |-> 0, lo |-> 0]
                    /\ observed \in {NotQueried, [hi |-> 0, lo |-> 0]}

C19_Witness ==
    /\ Len(history) = 1
    /\ UnmatchedEnd(history[1])
    /\ history[1].op = "rollback_transaction"
    /\ observed = U32Max

(* ----------------------- the server of C14 and C15 ---------------------- *)

\* The server as the claims describe it: a transaction that is open or not,
\* and the open savepoints, oldest first, each kept as the number n of its
\* name diesel_savepoint_n.  A failed statement changes nothing.
ServerIdle == [open |-> FALSE, savepoints |-> <<>>]

\* the numbers n with sql = keyword diesel_savepoint_n (at most one)
Named(keyword, sql) ==
    {n \in SavepointNumbers : sql = keyword \o "diesel_savepoint_" \o ToString(n)}

Without(savepoints, n) == SelectSeq(savepoints, LAMBDA m : m # n)

ServerApply(server, stmt) ==
    IF ~is_ok(stmt.result) THEN server
    ELSE IF stmt.sql = "BEGIN" \/ stmt.sql \in CustomSqls
         THEN [server EXCEPT !.open = TRUE]
    ELSE IF stmt.sql \in {"COMMIT", "ROLLBACK"} THEN ServerIdle
    ELSE IF Named("SAVEPOINT ", stmt.sql) # {}
         THEN [server EXCEPT !.savepoints =
                  Append(@, CHOOSE n \in Named("SAVEPOINT ", stmt.sql) : TRUE)]
    ELSE IF Named("RELEASE SAVEPOINT ", stmt.sql) # {}
         THEN [server EXCEPT !.savepoints =
                  Without(@, CHOOSE n \in Named("RELEASE SAVEPOINT ", stmt.sql) : TRUE)]
    ELSE IF Named("ROLLBACK TO SAVEPOINT ", stmt.sql) # {}
         THEN [server EXCEPT !.savepoints =
                  Without(@, CHOOSE n \in Named("ROLLBACK TO SAVEPOINT ", stmt.sql) : TRUE)]
    ELSE server

RECURSIVE ServerAfterStatements(_, _)
ServerAfterStatements(server, stmts) ==
    IF stmts = <<>> THEN server
    ELSE ServerAfterStatements(ServerApply(server, Head(stmts)), Tail(stmts))

RECURSIVE ServerAfter(_)
ServerAfter(calls) ==
    IF calls = <<>> THEN ServerIdle
    ELSE ServerAfterStatements(ServerAfter(SubSeq(calls, 1, Len(calls) - 1)),
                               calls[Len(calls)].stmts)

\* 0 = no transaction, 1 = a transaction, n > 1 = a transaction and n - 1 savepoints
ServerLevels(server) ==
    IF server.open THEN 1 + Len(server.savepoints) ELSE Len(server.savepoints)

\* commit and rollback were called inside a transaction only
EndsMatched ==
    \A c \in Calls :
        c.op \in {"commit_transaction", "rollback_transaction"} => c.pre >= 1

\* C14: when commit and rollback are called at depth >= 1 only, the depth after
\* every call equals the number of levels open on the server, also after
\* failed statements and after a failed COMMIT with its ROLLBACK.
C14_DepthMatchesServer ==
    EndsMatched =>
        /\ ServerAfter(history).open <=> transaction_depth >= 1
        /\ ServerLevels(ServerAfter(history)) = transaction_depth

C14_Witness ==
    /\ EndsMatched
    /\ transaction_depth = 2
    /\ \E c \in CommitAtDepthOne : Len(c.stmts) = 2 /\ AllFailed(c)

\* C15 as claimed: after any calls with any outcomes no two open savepoints
\* have the same name, and at depth D >= 1 the open savepoints are exactly
\* diesel_savepoint_1 .. diesel_savepoint_(D-1).
C15_OpenSavepointsFollowDepth ==
    LET open == ServerAfter(history).savepoints IN
    /\ \A i, j \in DOMAIN open : i # j => open[i] # open[j]
    /\ transaction_depth >= 1 =>
          {open[i] : i \in DOMAIN open} = 1..(transaction_depth - 1)

(* ------------------------------ C12 ------------------------------------ *)

SerializationFailures ==
    {Err(DatabaseError("SerializationFailure", i)) : i \in ErrorInfos}

\* C12: in every interleaving of the two serializable transactions each
\* thread sees depth 0 before its transaction, 1 inside it and 0 after it,
\* and once both are done one returned Ok and the other SerializationFailure.
C12_OneCommitsOtherRolledBack ==
    /\ \A t \in Threads :
          /\ Len(threads[t].seen) <= 3
          /\ \A k \in DOMAIN threads[t].seen :
                threads[t].seen[k] = [hi |-> 0, lo |-> IF k = 2 THEN 1 ELSE 0]
          /\ threads[t].pc \in {"inside", "read", "barrier", "waiting", "insert", "commit"}
                => threads[t].depth = 1
          /\ threads[t].pc \in {"unspawned", "connect", "run", "after", "done"}
                => threads[t].depth = 0
    /\ (\A t \in Threads : threads[t].pc = "done") =>
          \E t \in Threads :
              /\ threads[t].result = Ok
              /\ threads[other_i(t)].result \in SerializationFailures
    /\ main.pc # "panicked"

C12_Witness ==
    /\ main.pc = "passed"
    /\ \A t \in Threads : threads[t].pc = "done" /\ Len(threads[t].seen) = 3
    /\ threads[2].result = Ok
    /\ threads[1].result \in SerializationFailures

====
